---- MODULE Spec2Model ----
(***************************************************************************)
(* Model of the cpack archive reader (src/src/lib.rs): CPack::new_from_file *)
(* and CPack::parse over a byte source behind a mutex, CPack::len,          *)
(* CPack::is_empty and CPack::get_file, and the sub-file accessors          *)
(* (io_partition::PartitionMutex) that callers read and seek from threads.  *)
(***************************************************************************)
EXTENDS Integers, Sequences, FiniteSets

\* ---------------------------------------------------------------- bounds
\* Number of packed bytes that follow the header of a complete source.
DataLen == 4
\* Largest number of offset-table entries a generated source declares.
MaxFiles == 2
\* Largest buffer a caller hands to one accessor read.
MaxBuf == 2

\* ------------------------------------------------------- 32-bit integers
\* A u32 is kept as two 16-bit halves, value = hi * 65536 + lo.
Half == 65536

U32(lo, hi) == [lo |-> lo, hi |-> hi]

\* u32::from_le_bytes on a 4-byte buffer.
U32FromLeBytes(b) == U32(b[1] + 256 * b[2], b[3] + 256 * b[4])

\* The little-endian bytes of a u32 (the inverse of from_le_bytes).
U32ToLeBytes(u) == << u.lo % 256, u.lo \div 256, u.hi % 256, u.hi \div 256 >>

\* `n as u32` for a non-negative integer: keeps the low 32 bits.
AsU32(n) == U32(n % Half, (n \div Half) % Half)

\* The `+` of two u32 with overflow checks off: the sum modulo 2^32.
U32WrappingAdd(a, b) ==
    LET lo == a.lo + b.lo
        hi == a.hi + b.hi + (lo \div Half)
    IN  U32(lo % Half, hi % Half)

\* Whether the `+` of two u32 leaves the 32-bit range.
U32AddOverflows(a, b) == a.hi + b.hi + ((a.lo + b.lo) \div Half) >= Half

\* a > b and a < b on u32.
U32Gt(a, b) == a.hi > b.hi \/ (a.hi = b.hi /\ a.lo > b.lo)
U32Lt(a, b) == U32Gt(b, a)

\* min(value of u + p, cap) for small p and cap: where an absolute position
\* of the source lies, positions past `cap` being told apart no further.
U32PlusCapped(u, p, cap) ==
    IF u.hi = 0 /\ u.lo + p < cap THEN u.lo + p ELSE cap

\* min(value of u, cap).
U32Min(u, cap) == U32PlusCapped(u, 0, cap)

\* ------------------------------------------------------------- sources
Zeros(n) == [i \in 1..n |-> 0]
Min(a, b) == IF a < b THEN a ELSE b
Prefix(s, k) == SubSeq(s, 1, Min(k, Len(s)))
Max(a, b) == IF a > b THEN a ELSE b

MaxU32 == U32(Half - 1, Half - 1)

\* Position of the first packed byte in a source declaring n entries.
DataStart(n) == 16 + 8 * n

\* The packed bytes: distinct values, so that a misplaced read shows.
Data == [i \in 1..DataLen |-> 100 + i]

Magics == { Zeros(4), <<0, 0, 0, 1>>, <<7, 0, 0, 0>> }
Terminators == { Zeros(8), <<0, 0, 0, 0, 0, 0, 0, 1>>, <<9, 0, 0, 0, 0, 0, 0, 0>> }

\* Entries offered at place i of the table of a source of n entries: the
\* first one a window at the start of the data, the later ones a window at its
\* end (adjacent to the first, overlapping it, or running past the end of the
\* source), or an offset whose 32-bit sum with the length wraps.
EntryChoices(n, i) ==
    LET entry(o, l) == [file_offset |-> AsU32(o), file_lenght |-> AsU32(l)]
        first == DataStart(n)
        last == DataStart(n) + DataLen - 2
    IN  (IF i = 1 THEN { entry(first, 2), entry(first, 3) } ELSE { entry(last, 2) })
        \cup { entry(last, 3), [file_offset |-> MaxU32, file_lenght |-> AsU32(2)] }

RECURSIVE Flatten(_)
Flatten(ss) == IF ss = <<>> THEN <<>> ELSE Head(ss) \o Flatten(Tail(ss))

EntryBytes(e) == U32ToLeBytes(e.file_offset) \o U32ToLeBytes(e.file_lenght)

\* A complete source: magic, count, table, terminator, packed bytes.
BuildSource(magic, entries, term) ==
    magic \o U32ToLeBytes(AsU32(Len(entries)))
          \o Flatten([i \in 1..Len(entries) |-> EntryBytes(entries[i])])
          \o term \o Data

Tables ==
    UNION { { t \in [1..n -> EntryChoices(n, 1) \cup EntryChoices(n, 2)] :
                \A i \in 1..n : t[i] \in EntryChoices(n, i) } : n \in 0..MaxFiles }

FullSources ==
    { BuildSource(m, t, z) : m \in Magics, t \in Tables, z \in Terminators }

\* Sources cut short inside the header.
TruncatedSources ==
    { Prefix(s, k) : s \in { BuildSource(m, t, Zeros(8)) : m \in Magics, t \in Tables },
                     k \in { 0, 3, 4, 6, 8, 12, 16, 20 } }

Sources == FullSources \cup TruncatedSources

\* --------------------------------------------------------------- state
Threads == { 1, 2 }
Free == 0
Parser == 3

VARIABLES
    source,          \* the bytes of the underlying file
    cursor,          \* the position of the underlying file
    lock,            \* holder of the Mutex around the file: Free, Parser or a thread
    ctor,            \* where new_from_file / parse stands
    file_len,        \* parse: file_len
    number_of_file,  \* parse: number_of_file
    file_id,         \* parse: the loop index
    offset_table,    \* CPack::offset_table
    result,          \* what new_from_file returned
    acc,             \* per thread: the accessor it holds
    pc,              \* per thread: where its accessor operation stands
    op,              \* per thread: the operation in progress
    out,             \* per thread: the bytes its reads returned since its last seek
    ret              \* the value of the last len() / is_empty() call

vars == << source, cursor, lock, ctor, file_len, number_of_file, file_id,
           offset_table, result, acc, pc, op, out, ret >>

parseVars == << file_len, number_of_file, file_id, offset_table >>
threadVars == << acc, pc, op, out >>

NoResult == [kind |-> "None"]
Ok == [kind |-> "Ok"]
IOError == [kind |-> "IOError"]
FourFirstByteNotZero(b) == [kind |-> "FourFirstByteNotZero", bytes |-> b]
EndOfFileOutOfScope(id, end, len) ==
    [kind |-> "EndOfFileOutOfScope", file_id |-> id, end_of_out_file |-> end,
     end_of_source_file |-> len]
EndOfHeaderNotZero(pos, b) == [kind |-> "EndOfHeaderNotZero", start |-> pos, bytes |-> b]
\* new_from_file never returned: `+` overflowed in a build with overflow
\* checks and the thread unwound, dropping the guard and the archive.
Panicked == [kind |-> "Panic"]

NoAccessor ==
    [id |-> -1, base |-> 0, part |-> [start |-> AsU32(0), length |-> AsU32(0), pos |-> 0]]
NoOp == [kind |-> "none", arg |-> 0]

Init ==
    /\ source \in Sources
    /\ cursor = 0
    /\ lock = Free
    /\ ctor = "new"
    /\ file_len = AsU32(0)
    /\ number_of_file = AsU32(0)
    /\ file_id = 0
    /\ offset_table = <<>>
    /\ result = NoResult
    /\ acc = [t \in Threads |-> NoAccessor]
    /\ pc = [t \in Threads |-> "idle"]
    /\ op = [t \in Threads |-> NoOp]
    /\ out = [t \in Threads |-> <<>>]
    /\ ret = [kind |-> "None"]

\* ------------------------------------------------- the underlying file
\* Read::read_exact can fill a buffer of n bytes from the cursor.
CanReadExact(n) == cursor + n <= Len(source)

\* The n bytes read_exact returns.
ReadExactBytes(n) == SubSeq(source, cursor + 1, cursor + n)

\* Where a read_exact that started at `at` and failed may leave the cursor:
\* the implementations of Read differ (untouched, or at the end of the file).
CursorAfterFailedRead(at) == { at, Max(at, Len(source)) }

\* cpack_read_u32 at byte position `at`.
cpack_read_u32(at) == U32FromLeBytes(SubSeq(source, at + 1, at + 4))

\* ------------------------------------------------------------- parse
\* parse returns r and the MutexGuard outlives the call.
ParseReturnKeepsGuard(r) ==
    /\ result' = r
    /\ lock' = lock
    /\ ctor' = IF r = Ok THEN "ready" ELSE "failed"

\* parse returns r: the MutexGuard goes out of scope, new_from_file hands
\* the archive or the error to its caller.
ParseReturn(r) ==
    /\ result' = r
    /\ lock' = Free
    /\ ctor' = IF r = Ok THEN "ready" ELSE "failed"

\* A read_exact of parse that started at `at` hit the end of the file: `?`
\* returns IOError.
ParseReadFails(at) ==
    /\ cursor' \in CursorAfterFailedRead(at)
    /\ ParseReturn(IOError)

\* new_from_file wraps the file in Arc<Mutex<F>> with an empty table.
NewFromFile ==
    /\ ctor = "new"
    /\ ctor' = "lock"
    /\ offset_table' = <<>>
    /\ UNCHANGED << source, cursor, lock, file_len, number_of_file, file_id,
                    result, threadVars, ret >>

\* parse: self.file.lock(). The Mutex was made by new_from_file a moment
\* ago: nobody else holds it and it cannot be poisoned.
ParseLock ==
    /\ ctor = "lock"
    /\ lock = Free
    /\ lock' = Parser
    /\ ctor' = "len"
    /\ UNCHANGED << source, cursor, parseVars, result, threadVars, ret >>

\* parse: file_len = file.seek(SeekFrom::End(0))? as u32
ParseFileLen ==
    /\ ctor = "len"
    /\ cursor' = Len(source)
    /\ file_len' = AsU32(Len(source))
    /\ ctor' = "magic"
    /\ UNCHANGED << source, lock, number_of_file, file_id, offset_table, result,
                    threadVars, ret >>

\* The magic check looking at the first byte alone.
MagicIsZeroFirstByte(first_four_bytes) == first_four_bytes[1] = 0

\* parse: `first_four_bytes != [0,0,0,0]`, negated.
MagicIsZero(first_four_bytes) == first_four_bytes = Zeros(4)

\* parse: `buffer != [0,0,0,0,0,0,0,0]`, negated.
EndOfHeaderIsZero(buffer) == buffer = Zeros(8)

\* parse: the position EndOfHeaderNotZero carries, file.seek(SeekFrom::Current(0)),
\* taken after the eight bytes were read with the cursor at `at`.
EndOfHeaderPosition(at) == at + 8

\* parse: seek to the start, read and check the four first bytes.
ParseMagic ==
    /\ ctor = "magic"
    /\ IF 4 <= Len(source)
       THEN LET first_four_bytes == SubSeq(source, 1, 4) IN
            IF ~MagicIsZero(first_four_bytes)
            THEN /\ cursor' = 4
                 /\ ParseReturn(FourFirstByteNotZero(first_four_bytes))
            ELSE /\ cursor' = 4
                 /\ ctor' = "count"
                 /\ UNCHANGED << lock, result >>
       ELSE ParseReadFails(0)
    /\ UNCHANGED << source, parseVars, threadVars, ret >>

\* parse: number_of_file = cpack_read_u32(file)?
ParseCount ==
    /\ ctor = "count"
    /\ IF CanReadExact(4)
       THEN /\ number_of_file' = cpack_read_u32(cursor)
            /\ cursor' = cursor + 4
            /\ file_id' = 0
            /\ ctor' = "entries"
            /\ UNCHANGED << lock, result >>
       ELSE /\ ParseReadFails(cursor)
            /\ UNCHANGED << number_of_file, file_id >>
    /\ UNCHANGED << source, file_len, offset_table, threadVars, ret >>

\* The bounds check of one entry, `file_offset + file_lenght > file_len`.
EntryOutOfScope(file_offset, file_lenght, len) ==
    U32Gt(U32WrappingAdd(file_offset, file_lenght), len)

\* parse: one turn of `for file_id in 0..number_of_file`.
ParseEntry ==
    /\ ctor = "entries"
    /\ U32Lt(AsU32(file_id), number_of_file)
    /\ IF CanReadExact(8)
       THEN LET file_offset == cpack_read_u32(cursor)
                file_lenght == cpack_read_u32(cursor + 4)
                end == U32WrappingAdd(file_offset, file_lenght)
                wrapped ==
                    /\ cursor' = cursor + 8
                    /\ IF EntryOutOfScope(file_offset, file_lenght, file_len)
                       THEN /\ ParseReturn(EndOfFileOutOfScope(AsU32(file_id), end, file_len))
                            /\ UNCHANGED << offset_table, file_id >>
                       ELSE /\ offset_table' = Append(offset_table,
                                   [file_offset |-> file_offset, file_lenght |-> file_lenght])
                            /\ file_id' = file_id + 1
                            /\ UNCHANGED << lock, result, ctor >>
                panics ==
                    /\ U32AddOverflows(file_offset, file_lenght)
                    /\ cursor' = cursor + 8
                    /\ result' = Panicked
                    /\ lock' = Free
                    /\ ctor' = "panicked"
                    /\ UNCHANGED << offset_table, file_id >>
            IN  wrapped \/ panics
       ELSE /\ ParseReadFails(IF CanReadExact(4) THEN cursor + 4 ELSE cursor)
            /\ UNCHANGED << offset_table, file_id >>
    /\ UNCHANGED << source, file_len, number_of_file, threadVars, ret >>

\* parse: after the loop, read and check the eight bytes that end the header.
ParseEndOfHeader ==
    /\ ctor = "entries"
    /\ ~U32Lt(AsU32(file_id), number_of_file)
    /\ IF CanReadExact(8)
       THEN LET buffer == ReadExactBytes(8) IN
            /\ cursor' = cursor + 8
            /\ IF ~EndOfHeaderIsZero(buffer)
               THEN ParseReturn(EndOfHeaderNotZero(EndOfHeaderPosition(cursor), buffer))
               ELSE ParseReturn(Ok)
       ELSE ParseReadFails(cursor)
    /\ UNCHANGED << source, parseVars, threadVars, ret >>

\* ------------------------------------------------------------ queries
\* CPack::len
len == Len(offset_table)

\* is_empty with the comparison turned around.
is_empty_negated == len # 0

\* CPack::is_empty
is_empty == len = 0

\* PartitionMutex::new(file, start, lenght): a view of [start, start + lenght)
\* of the shared file, its own position at the start of the window.
PartitionMutexNew(start, lenght) == [start |-> start, length |-> lenght, pos |-> 0]

\* get_file handing the two fields of the entry over in the wrong order.
get_file_swapped(id) ==
    PartitionMutexNew(offset_table[id + 1].file_lenght, offset_table[id + 1].file_offset)

\* CPack::get_file(id) for an id of the table (any other id panics, and is
\* left to the caller).
get_file(id) ==
    PartitionMutexNew(offset_table[id + 1].file_offset, offset_table[id + 1].file_lenght)

\* A caller asks the archive for its number of files.
LenCall ==
    /\ ctor = "ready"
    /\ ret' = [kind |-> "len", val |-> len]
    /\ UNCHANGED << source, cursor, lock, ctor, parseVars, result, threadVars >>

\* A caller asks the archive whether it is empty.
IsEmptyCall ==
    /\ ctor = "ready"
    /\ ret' = [kind |-> "is_empty", val |-> is_empty]
    /\ UNCHANGED << source, cursor, lock, ctor, parseVars, result, threadVars >>

\* Thread t asks for the accessor of file id and starts with an empty buffer.
GetFile(t, id) ==
    /\ ctor = "ready"
    /\ pc[t] = "idle"
    /\ id \in 0..(len - 1)
    /\ acc' = [acc EXCEPT ![t] = [id |-> id, base |-> 0, part |-> get_file(id)]]
    /\ out' = [out EXCEPT ![t] = <<>>]
    /\ UNCHANGED << source, cursor, lock, ctor, parseVars, result, pc, op, ret >>

\* ----------------------------------------------------------- accessors
SeekTargets == { 1, 3 }

\* Thread t calls read on its accessor with a buffer of n bytes.
StartRead(t, n) ==
    /\ pc[t] = "idle"
    /\ acc[t].id >= 0
    /\ op' = [op EXCEPT ![t] = [kind |-> "read", arg |-> n]]
    /\ pc' = [pc EXCEPT ![t] = "wait"]
    /\ UNCHANGED << source, cursor, lock, ctor, parseVars, result, acc, out, ret >>

\* Thread t calls seek(SeekFrom::Start(p)) on its accessor.
StartSeek(t, p) ==
    /\ pc[t] = "idle"
    /\ acc[t].id >= 0
    /\ op' = [op EXCEPT ![t] = [kind |-> "seek", arg |-> p]]
    /\ pc' = [pc EXCEPT ![t] = "wait"]
    /\ UNCHANGED << source, cursor, lock, ctor, parseVars, result, acc, out, ret >>

\* The operation of thread t goes on without waiting for the lock.
AccLockNoWait(t) ==
    /\ pc[t] = "wait"
    /\ lock' = t
    /\ pc' = [pc EXCEPT ![t] = "locked"]
    /\ UNCHANGED << source, cursor, ctor, parseVars, result, acc, op, out, ret >>

\* The operation of thread t takes the lock of the shared file.
AccLock(t) ==
    /\ pc[t] = "wait"
    /\ lock = Free
    /\ lock' = t
    /\ pc' = [pc EXCEPT ![t] = "locked"]
    /\ UNCHANGED << source, cursor, ctor, parseVars, result, acc, op, out, ret >>

\* The local position taken for the absolute one.
AbsolutePositionLocal(a, p) == Min(p, Len(source) + 1)

\* The absolute position of local position p of accessor a, positions past
\* the end of the source being told apart no further.
AbsolutePosition(a, p) == U32PlusCapped(a.start, p, Len(source) + 1)

\* A read: the shared file is moved to the absolute position of the
\* accessor's own position.
AccSeekForRead(t) ==
    /\ pc[t] = "locked"
    /\ op[t].kind = "read"
    /\ cursor' = AbsolutePosition(acc[t].part, acc[t].part.pos)
    /\ pc' = [pc EXCEPT ![t] = "seeked"]
    /\ UNCHANGED << source, lock, ctor, parseVars, result, acc, op, out, ret >>

\* The number of bytes a read of n bytes returns: no more than the buffer,
\* than what is left of the window, than what is left of the file.
ReadCount(a, n) ==
    Max(0, Min(n, Min(U32Min(a.length, a.pos + n) - a.pos, Len(source) - cursor)))

\* A read: the bytes are taken at the cursor, the accessor's position moves
\* past them, the lock is released.
AccRead(t) ==
    /\ pc[t] = "seeked"
    /\ LET k == ReadCount(acc[t].part, op[t].arg)
           bytes == SubSeq(source, cursor + 1, cursor + k)
       IN  /\ cursor' = cursor + k
           /\ acc' = [acc EXCEPT ![t].part.pos = @ + k]
           /\ out' = [out EXCEPT ![t] = @ \o bytes]
    /\ lock' = Free
    /\ pc' = [pc EXCEPT ![t] = "idle"]
    /\ op' = [op EXCEPT ![t] = NoOp]
    /\ UNCHANGED << source, ctor, parseVars, result, ret >>

\* A seek to local position p: refused past the end of the window; else the
\* accessor's position becomes p, and the caller starts a new buffer there.
AccSeek(t) ==
    /\ pc[t] = "locked"
    /\ op[t].kind = "seek"
    /\ IF U32Lt(acc[t].part.length, AsU32(op[t].arg))
       THEN UNCHANGED << cursor, acc, out >>
       ELSE /\ cursor' = AbsolutePosition(acc[t].part, op[t].arg)
            /\ acc' = [acc EXCEPT ![t].part.pos = op[t].arg, ![t].base = op[t].arg]
            /\ out' = [out EXCEPT ![t] = <<>>]
    /\ lock' = Free
    /\ pc' = [pc EXCEPT ![t] = "idle"]
    /\ op' = [op EXCEPT ![t] = NoOp]
    /\ UNCHANGED << source, ctor, parseVars, result, ret >>

Next ==
    \/ NewFromFile
    \/ ParseLock
    \/ ParseFileLen
    \/ ParseMagic
    \/ ParseCount
    \/ ParseEntry
    \/ ParseEndOfHeader
    \/ LenCall
    \/ IsEmptyCall
    \/ \E t \in Threads, id \in 0..(MaxFiles - 1) : GetFile(t, id)
    \/ \E t \in Threads, n \in 1..MaxBuf : StartRead(t, n)
    \/ \E t \in Threads, p \in SeekTargets : StartSeek(t, p)
    \/ \E t \in Threads : AccLock(t)
    \/ \E t \in Threads : AccSeekForRead(t)
    \/ \E t \in Threads : AccRead(t)
    \/ \E t \in Threads : AccSeek(t)

Spec == Init /\ [][Next]_vars

\* Archives of at most one file, for the properties of progress: which
\* windows the table holds plays no part in who gets the lock.
FairSources ==
    { s \in Sources : Len(s) < 8 \/ U32Lt(U32FromLeBytes(SubSeq(s, 5, 8)), AsU32(2)) }

FairInit == Init /\ source \in FairSources

\* What the scheduler gives: a thread that can take a step of the operation
\* it is in, and stays able to, takes it. The Mutex promises no order among
\* the threads that wait for it, and callers need not start anything.
Fairness ==
    /\ WF_vars(ParseLock \/ ParseFileLen \/ ParseMagic \/ ParseCount
                 \/ ParseEntry \/ ParseEndOfHeader)
    /\ \A t \in Threads :
          WF_vars(AccLock(t) \/ AccSeekForRead(t) \/ AccRead(t) \/ AccSeek(t))

FairSpec == FairInit /\ [][Next]_vars /\ Fairness

\* ------------------------------------------------- what a source holds
\* The source read as the on-disk format describes it, apart from parse.
ZeroMagic == Len(source) >= 4 /\ SubSeq(source, 1, 4) = Zeros(4)
HasCount == Len(source) >= 8
DeclaredCount == U32FromLeBytes(SubSeq(source, 5, 8))
EntryPresent(i) == Len(source) >= 16 + 8 * i
SourceEntry(i) ==
    [file_offset |-> U32FromLeBytes(SubSeq(source, 9 + 8 * i, 12 + 8 * i)),
     file_lenght |-> U32FromLeBytes(SubSeq(source, 13 + 8 * i, 16 + 8 * i))]

\* file_offset + file_lenght > length of the source, the sum taken in the
\* integers (the length of a source is below 2^16 here).
TrueEndExceeds(e) ==
    \/ e.file_offset.hi + e.file_lenght.hi > 0
    \/ e.file_offset.lo + e.file_lenght.lo > Len(source)

\* Zero magic, a count N with N entries present.
HasTable ==
    /\ ZeroMagic
    /\ HasCount
    /\ DeclaredCount.hi = 0
    /\ DeclaredCount.lo = 0 \/ EntryPresent(DeclaredCount.lo - 1)

TerminatorPresent == HasTable /\ Len(source) >= 16 + 8 * DeclaredCount.lo
Terminator == SubSeq(source, 9 + 8 * DeclaredCount.lo, 16 + 8 * DeclaredCount.lo)

AllEntriesInBounds ==
    \A i \in 0..(DeclaredCount.lo - 1) : ~TrueEndExceeds(SourceEntry(i))

WellFormed ==
    /\ TerminatorPresent
    /\ AllEntriesInBounds
    /\ Terminator = Zeros(8)

\* new_from_file has returned to its caller.
Returned == ctor \in { "ready", "failed" }

Holding(t) == acc[t].id >= 0

\* The bytes of the source from local position `from` up to `to` of the
\* window that starts at the u32 `start`; none when the window lies outside.
WindowBytes(start, from, to) ==
    IF start.hi = 0 /\ start.lo + to <= Len(source)
    THEN SubSeq(source, start.lo + from + 1, start.lo + to)
    ELSE <<>>

\* Local position of an accessor relative to its length.
Within(a) == a.length.hi > 0 \/ a.pos <= a.length.lo

Disjoint(a, b) ==
    /\ a.start.hi = 0 /\ b.start.hi = 0
    /\ \/ a.start.lo + a.length.lo <= b.start.lo
       \/ b.start.lo + b.length.lo <= a.start.lo

WindowPositions(a) == (a.start.lo + 1)..(a.start.lo + a.length.lo)

\* C2: two threads holding accessors over disjoint entries of one archive
\* each get the bytes of their own window, in order, and none of the other's,
\* at every point of every interleaving of their operations.
C2_Isolation ==
    \A t, u \in Threads :
        (t # u /\ Holding(t) /\ Holding(u) /\ acc[t].id # acc[u].id
              /\ Disjoint(acc[t].part, acc[u].part)) =>
            /\ out[t] = WindowBytes(acc[t].part.start, acc[t].base, acc[t].part.pos)
            /\ Len(out[t]) = acc[t].part.pos - acc[t].base
            /\ \A k \in 1..Len(out[t]) :
                  \A j \in WindowPositions(acc[u].part) :
                      j <= Len(source) => out[t][k] # source[j]

C2_Witness ==
    /\ Holding(1) /\ Holding(2) /\ acc[1].id # acc[2].id
    /\ Disjoint(acc[1].part, acc[2].part)
    /\ Len(out[1]) = 2 /\ Len(out[2]) = 1
    /\ lock = 2 /\ pc[1] = "wait"

\* C3 (violated by the code): every entry of an archive new_from_file returned lies inside the
\* source: file_offset + file_length, summed in the integers, is at most the
\* length of the source.
C3_EntriesInBounds ==
    ctor = "ready" =>
        \A i \in 1..Len(offset_table) : ~TrueEndExceeds(offset_table[i])

\* An entry of the table of the source whose end lies past the source.
Violating(i) ==
    /\ ZeroMagic /\ HasCount
    /\ U32Lt(AsU32(i), DeclaredCount)
    /\ EntryPresent(i)
    /\ TrueEndExceeds(SourceEntry(i))

EntryIds == 0..(Len(source) \div 8)
FirstViolating == CHOOSE i \in EntryIds : Violating(i) /\ \A j \in 0..(i - 1) : ~Violating(j)

\* The u32 v is file_offset + file_lenght of e, summed in the integers.
EndIs(e, v) ==
    LET lo == e.file_offset.lo + e.file_lenght.lo
        hi == e.file_offset.hi + e.file_lenght.hi + (lo \div Half)
    IN  hi < Half /\ v = U32(lo % Half, hi)

\* C4 (violated by the code): a source with zero magic and an entry whose end lies past the source
\* makes new_from_file fail with EndOfFileOutOfScope(id, end, length): id the
\* first such entry, end its file_offset + file_length, length the length of
\* the source.
C4_OutOfScopeReported ==
    (Returned /\ \E i \in EntryIds : Violating(i)) =>
        /\ result.kind = "EndOfFileOutOfScope"
        /\ result.file_id = AsU32(FirstViolating)
        /\ EndIs(SourceEntry(FirstViolating), result.end_of_out_file)
        /\ result.end_of_source_file = AsU32(Len(source))

\* C5: a source of at least four bytes whose four first bytes are not all
\* zero makes new_from_file fail with FourFirstByteNotZero(those bytes),
\* whatever follows them.
C5_BadMagic ==
    (Returned /\ Len(source) >= 4 /\ ~ZeroMagic) =>
        result = FourFirstByteNotZero(SubSeq(source, 1, 4))

C5_Witness ==
    /\ ctor = "failed"
    /\ Len(source) \in 4..7
    /\ result.kind = "FourFirstByteNotZero"
    /\ result.bytes = <<0, 0, 0, 1>>

\* C6 (violated by the code): zero magic, N entries in bounds and eight following bytes that are
\* not all zero make new_from_file fail with EndOfHeaderNotZero(pos, bytes):
\* bytes the eight bytes, pos the position where they start, 8 + 8N.
C6_BadTerminatorReported ==
    (Returned /\ TerminatorPresent /\ AllEntriesInBounds /\ Terminator # Zeros(8)) =>
        result = EndOfHeaderNotZero(8 + 8 * DeclaredCount.lo, Terminator)

\* C7: whatever the shared cursor was left at, the bytes an accessor returned
\* since it was placed at local position base are those of the source from
\* start + base up to start + pos, pos never passes the length of the window,
\* and the read about to happen finds the cursor at start + pos.
C7_WindowOnly ==
    \A t \in Threads : Holding(t) =>
        LET a == acc[t].part IN
        /\ Within(a)
        /\ acc[t].base <= a.pos
        /\ Len(out[t]) = a.pos - acc[t].base
        /\ out[t] = WindowBytes(a.start, acc[t].base, a.pos)
        /\ pc[t] = "seeked" =>
              IF a.start.hi = 0 THEN cursor = a.start.lo + a.pos
                                ELSE cursor > Len(source)

Overlapping(a, b) ==
    /\ a.start.hi = 0 /\ b.start.hi = 0
    /\ a.start.lo < b.start.lo + b.length.lo
    /\ b.start.lo < a.start.lo + a.length.lo

C7_Witness ==
    /\ Holding(1) /\ Holding(2) /\ acc[1].id # acc[2].id
    /\ Overlapping(acc[1].part, acc[2].part)
    /\ acc[1].base = 1 /\ Len(out[1]) = 2
    /\ pc[2] = "seeked" /\ Len(out[2]) = 1
    /\ cursor # DataStart(len)

\* C8: the lock is the parser's exactly while parse runs, a thread's exactly
\* from the lock to the end of one operation of its accessor, and nobody's
\* otherwise: it is free once new_from_file has returned, accessors exist only
\* then, and between the seek and the read of one operation the cursor stays
\* where the seek put it.
C8_LockDiscipline ==
    /\ lock = Parser <=> ctor \in { "len", "magic", "count", "entries" }
    /\ \A t \in Threads :
          /\ lock = t <=> pc[t] \in { "locked", "seeked" }
          /\ (Holding(t) \/ pc[t] # "idle") => ctor = "ready"
          /\ pc[t] = "seeked" =>
                cursor = AbsolutePosition(acc[t].part, acc[t].part.pos)
    /\ Returned => lock # Parser

C8_Witness ==
    /\ ctor = "ready"
    /\ lock = 1 /\ pc[1] = "seeked" /\ pc[2] = "wait"
    /\ Len(out[2]) = 1

\* C9 as stated (violated under FairSpec): every parse, read or seek that has started completes.
C9_EveryOperationCompletes ==
    /\ ctor = "lock" ~> ctor \in { "ready", "failed", "panicked" }
    /\ \A t \in Threads : pc[t] = "wait" ~> pc[t] = "idle"

\* C9, amended: the lock never deadlocks. A parse that has started ends, a
\* thread that holds the lock ends its operation and frees the lock, and
\* while operations wait for the lock one of them gets it.
C9_NoDeadlock ==
    /\ ctor = "lock" ~> ctor \in { "ready", "failed", "panicked" }
    /\ \A t \in Threads : lock = t ~> (lock = Free /\ pc[t] = "idle")
    /\ (\E t \in Threads : pc[t] = "wait") ~> (\E t \in Threads : pc[t] = "locked")

C9_Witness ==
    /\ ctor = "ready"
    /\ pc[1] = "wait" /\ op[1].kind = "read"
    /\ lock = 2 /\ pc[2] = "locked" /\ op[2].kind = "seek"
    /\ Len(out[2]) = 1

\* C10: once the archive is built the offset table never changes, len()
\* returns its size and is_empty() whether that size is zero, get_file hands
\* out an accessor at local position 0, and a step that changes one thread's
\* accessor or buffer changes no other thread's.
C10_ReadOnlyArchive ==
    [][ /\ ctor = "ready" => (ctor' = "ready" /\ offset_table' = offset_table)
        /\ ret'.kind = "len" => ret'.val = Len(offset_table')
        /\ ret'.kind = "is_empty" => ret'.val = (Len(offset_table') = 0)
        /\ \A t \in Threads :
              /\ (pc[t] = "idle" /\ pc'[t] = "idle" /\ acc'[t] # acc[t]) =>
                    /\ acc'[t].part.pos = 0
                    /\ acc'[t].part.start = offset_table[acc'[t].id + 1].file_offset
                    /\ acc'[t].part.length = offset_table[acc'[t].id + 1].file_lenght
              /\ (acc'[t] # acc[t] \/ out'[t] # out[t]) =>
                    \A u \in Threads \ {t} : acc'[u] = acc[u] /\ out'[u] = out[u]
      ]_vars

C10_Witness ==
    /\ Holding(1) /\ Holding(2) /\ acc[1].id = acc[2].id
    /\ acc[1].part.pos = 2 /\ acc[2].part.pos = 0 /\ out[2] = <<>>
    /\ ret.kind = "is_empty" /\ ret.val = FALSE

====
